---- MODULE Spec2Model ----
(***************************************************************************)
(* Model of the Arrow IPC stream writer of go/arrow/ipc/writer.go: the     *)
(* Writer (start / Write / Close), the dictionary pass                     *)
(* (writeDictionaryPayloads), the record encoder (encode / visit) and the  *)
(* serial body compression.                                                *)
(***************************************************************************)
EXTENDS Integers, Sequences, FiniteSets, TLC

(***************************************************************************)
(* Bounds of the model.                                                    *)
(***************************************************************************)
\* calls (Write, Close) made on one writer
MaxCalls == 3
\* longest dictionary handed to a direct call of the dictionary pass
MaxDictLen == 2
\* rows of a record
NumRows == 2
\* the depth budget of the record encoder (64 in the program, scaled down)
kMaxNestingDepth == 4

(***************************************************************************)
(* Program constants.                                                      *)
(***************************************************************************)
kArrowAlignment == 8
MaxInt32 == 2147483647
\* flatbuf.CompressionType: -1 is "no codec", 0 is LZ4_FRAME
NoCodec == -1
LZ4 == 0

(***************************************************************************)
(* Buffers.  A buffer is its length; nil is the absent buffer.  comp tells *)
(* whether the bytes are the compressed form produced by compress.         *)
(***************************************************************************)
NilBuf == [nil |-> TRUE, len |-> 0, comp |-> FALSE]

Buf(n) == [nil |-> FALSE, len |-> n, comp |-> FALSE]

minI64(a, b) == IF a < b THEN a ELSE b

\* the element of a one-element set: The({f(x) : x \in {v}}) is f(v) with
\* v computed once
The(S) == CHOOSE x \in S : TRUE

paddedLength(n, align) == ((n + align - 1) \div align) * align

BytesForBits(n) == (n + 7) \div 8

CeilByte64(n) == ((n + 7) \div 8) * 8

IsMultipleOf8(n) == n % 8 = 0

needTruncate(offset, buf, minLength) ==
  IF buf.nil THEN FALSE ELSE offset /= 0 \/ minLength < buf.len

newTruncatedBitmap(offset, length, input) ==
  IF input.nil THEN NilBuf
  ELSE LET minLength == paddedLength(BytesForBits(length), kArrowAlignment)
       IN IF offset /= 0 \/ minLength < input.len THEN Buf(minLength) ELSE input

(***************************************************************************)
(* Arrays.  type is the type tag, [offset, offset+len) the logical window, *)
(* valid the physical validity bits (<<>>: no nulls), width the byte width *)
(* of a fixed-width type, offs the physical int32 value offsets of a       *)
(* variable-width or list type, bufs the physical buffers of the array     *)
(* data and children the child arrays (indices of a Dictionary, storage of *)
(* an Extension, the fields of a Struct, the values of a list).            *)
(***************************************************************************)
Arr(type, offset, len, valid, width, offs, bufs, children) ==
  [type |-> type, offset |-> offset, len |-> len, valid |-> valid,
   width |-> width, offs |-> offs, bufs |-> bufs, children |-> children]

NullN(arr) ==
  Cardinality({i \in 1..Len(arr.valid) :
                 i > arr.offset /\ i <= arr.offset + arr.len /\ arr.valid[i] = 0})

\* array.NewSlice(arr, beg, end)
NewSlice(arr, beg, end) ==
  [arr EXCEPT !.offset = arr.offset + beg, !.len = end - beg]

\* array.NewSlice panics unless 0 <= beg <= end <= arr.Len()
sliceable(arr, beg, end) == 0 <= beg /\ beg <= end /\ end <= arr.len

\* arr.Offsets() of a List or Map: the value offsets of the logical window
Offsets(arr) ==
  IF Len(arr.offs) = 0 THEN <<>>
  ELSE [i \in 1..(arr.len + 1) |-> arr.offs[arr.offset + i]]

(***************************************************************************)
(* The record encoder.  e is the encoder together with the payload under   *)
(* construction: err, the body buffers, the field metadata and the depth   *)
(* budget.                                                                 *)
(***************************************************************************)
newRecordEncoder(maxDepth, allow64b, codec, compressNP) ==
  [err |-> "nil", body |-> <<>>, fields |-> <<>>, meta |-> <<>>, size |-> 0,
   start |-> 0, depth |-> maxDepth, allow64b |-> allow64b, codec |-> codec,
   compressNP |-> compressNP, cfail |-> 0, cerr |-> "nil", hung |-> FALSE]

\* a fresh Payload: the encoder's view of it is the body and the size
newPayload(e) == [e EXCEPT !.body = <<>>, !.size = 0, !.err = "nil", !.cerr = "nil"]

\* the codec of this call fails on body buffer number k (0: it never fails)
withCodecFailure(e, k) == [e EXCEPT !.cfail = k]

reset(e) == [e EXCEPT !.start = 0, !.fields = <<>>]

\* the offsets buffer and the error; a nil offsets buffer is dereferenced
getZeroBasedValueOffsets(arr) ==
  LET voffsets == arr.bufs[2]
      offsetBytesNeeded == 4 * (arr.len + 1)
  IN IF voffsets.nil THEN [err |-> "panic", buf |-> NilBuf]
     ELSE LET v == IF arr.offset /= 0 \/ offsetBytesNeeded < voffsets.len
                   THEN Buf(offsetBytesNeeded) ELSE voffsets
          IN [err |-> "nil", buf |-> IF v.len = 0 THEN NilBuf ELSE v]

\* the validity bitmap appended for a non-Null array
validityBuffer(arr) ==
  IF NullN(arr) = 0 THEN NilBuf
  ELSE IF NullN(arr) = arr.len
       THEN Buf(paddedLength(BytesForBits(arr.len), kArrowAlignment))
       ELSE newTruncatedBitmap(arr.offset, arr.len, arr.bufs[1])

\* the values buffer of a fixed-width array
fixedWidthValues(arr) ==
  LET values == arr.bufs[2]
      minLength == paddedLength(arr.len * arr.width, kArrowAlignment)
  IN IF needTruncate(arr.offset, values, minLength)
     THEN LET offset == arr.offset * arr.width
          IN Buf(minI64(CeilByte64(arr.len * arr.width), values.len - offset))
     ELSE values

\* the data buffer of a Binary or String array
binaryValues(arr, voffsets) ==
  LET values == arr.bufs[3]
      totalDataBytes == IF voffsets.nil THEN 0
                        ELSE arr.offs[arr.offset + arr.len + 1] - arr.offs[arr.offset + 1]
  IN IF needTruncate(arr.offset, values, totalDataBytes)
     THEN Buf(minI64(paddedLength(totalDataBytes, kArrowAlignment), totalDataBytes))
     ELSE values

\* the child of a List or Map, sliced to the values the window refers to
listValues(arr, voffsets) ==
  LET values == arr.children[1]
      off == Offsets(arr)
      values_offset == IF voffsets.nil THEN 0 ELSE off[1]
      values_length == IF voffsets.nil THEN 0 ELSE off[arr.len + 1] - values_offset
  IN IF Len(off) /= 0 \/ values_length < values.len
     THEN NewSlice(values, values_offset, values_length)
     ELSE values

\* the slice of the child of a List or Map, when one is taken, is in range
listSliceable(arr, voffsets) ==
  LET values == arr.children[1]
      off == Offsets(arr)
      values_offset == IF voffsets.nil THEN 0 ELSE off[1]
      values_length == IF voffsets.nil THEN 0 ELSE off[arr.len + 1] - values_offset
  IN (Len(off) /= 0 \/ values_length < values.len)
       => sliceable(values, values_offset, values_length)

\* the loop over the fields of a Struct stops one field short
structFieldsButLast(arr) ==
  [i \in 1..(Len(arr.children) - 1) |->
     LET child == arr.children[i]
     IN IF arr.offset /= 0 \/ child.len /= arr.len
        THEN NewSlice(child, arr.offset, arr.offset + arr.len)
        ELSE child]

\* arr.Field(i) of a Struct: the child, sliced to the window of the struct
structFields(arr) ==
  [i \in 1..Len(arr.children) |->
     LET child == arr.children[i]
     IN IF arr.offset /= 0 \/ child.len /= arr.len
        THEN NewSlice(child, arr.offset, arr.offset + arr.len)
        ELSE child]

RECURSIVE visit(_, _)
RECURSIVE visitFields(_, _, _)

\* the loop over the fields of a Struct: stops at the first error
visitFields(e, fs, i) ==
  IF i > Len(fs) THEN e
  ELSE The({IF e1.err /= "nil" THEN e1 ELSE visitFields(e1, fs, i + 1) :
              e1 \in {visit(e, fs[i])}})

visit(e, arr) ==
  IF e.depth <= 0 THEN [e EXCEPT !.err = "errMaxRecursion"]
  ELSE IF ~e.allow64b /\ arr.len > MaxInt32 THEN [e EXCEPT !.err = "errBigArray"]
  ELSE IF arr.type = "EXTENSION" THEN visit(e, arr.children[1])
  ELSE IF arr.type = "DICTIONARY" THEN visit(e, arr.children[1])
  ELSE
    LET e1 == [e EXCEPT !.fields = Append(@, [Len |-> arr.len, Nulls |-> NullN(arr), Offset |-> 0])]
    IN IF arr.type = "NULL" THEN e1
       ELSE
         LET e2 == [e1 EXCEPT !.body = Append(@, validityBuffer(arr))]
         IN CASE arr.type = "BOOL" ->
                   [e2 EXCEPT !.body = Append(@, IF arr.len /= 0
                       THEN newTruncatedBitmap(arr.offset, arr.len, arr.bufs[2])
                       ELSE NilBuf)]
              [] arr.type = "FIXED" ->
                   [e2 EXCEPT !.body = Append(@, fixedWidthValues(arr))]
              [] arr.type \in {"BINARY", "STRING"} ->
                   LET vo == getZeroBasedValueOffsets(arr)
                   IN IF vo.err /= "nil" THEN [e2 EXCEPT !.err = vo.err]
                      ELSE [e2 EXCEPT !.body = Append(Append(@, vo.buf), binaryValues(arr, vo.buf))]
              [] arr.type = "STRUCT" ->
                   The({IF e3.err /= "nil" THEN e3 ELSE [e3 EXCEPT !.depth = @ + 1] :
                          e3 \in {visitFields([e2 EXCEPT !.depth = @ - 1],
                                               structFields(arr), 1)}})
              [] arr.type \in {"MAP", "LIST"} ->
                   LET vo == getZeroBasedValueOffsets(arr)
                   IN IF vo.err /= "nil" THEN [e2 EXCEPT !.err = vo.err]
                      ELSE IF ~listSliceable(arr, vo.buf)
                      THEN [e2 EXCEPT !.body = Append(@, vo.buf), !.depth = @ - 1,
                                      !.err = "panic"]
                      ELSE The({IF e3.err /= "nil" THEN e3 ELSE [e3 EXCEPT !.depth = @ + 1] :
                                  e3 \in {visit([e2 EXCEPT !.body = Append(@, vo.buf),
                                                           !.depth = @ - 1],
                                                listValues(arr, vo.buf))}})
              [] arr.type = "FSL" ->
                   LET size == arr.width
                   IN IF ~sliceable(arr.children[1], arr.offset * size,
                                    (arr.offset + arr.len) * size)
                      THEN [e2 EXCEPT !.depth = @ - 1, !.err = "panic"]
                      ELSE
                      The({IF e3.err /= "nil" THEN e3 ELSE [e3 EXCEPT !.depth = @ + 1] :
                             e3 \in {visit([e2 EXCEPT !.depth = @ - 1],
                                           NewSlice(arr.children[1], arr.offset * size,
                                                    (arr.offset + arr.len) * size))}})
              [] OTHER -> [e2 EXCEPT !.err = "panic"]

(***************************************************************************)
(* Body compression.  compress rewrites body buffer idx to                 *)
(* uint64(len) || compressed bytes; nil and empty buffers are left alone.  *)
(* The codec fails on buffer e.cfail.                                      *)
(***************************************************************************)
Int64SizeBytes == 8

\* length of the compressed form of n bytes
CompressedLen(codec, n) == (n \div 2) + 1

compressible(b) == ~b.nil /\ b.len /= 0

compress(e, idx) ==
  IF ~compressible(e.body[idx]) THEN [err |-> "nil", e |-> e]
  ELSE IF idx = e.cfail THEN [err |-> "errCompress", e |-> e]
  ELSE [err |-> "nil",
        e |-> [e EXCEPT !.body[idx] =
                 [nil |-> FALSE, comp |-> TRUE,
                  len |-> Int64SizeBytes + CompressedLen(e.codec, e.body[idx].len)]]]

\* some buffer of the body makes the codec fail
codecFails(e) ==
  e.cfail \in 1..Len(e.body) /\ compressible(e.body[e.cfail])

\* the loop of the serial path from buffer idx on: the buffers before the
\* first error are compressed, the loop returns at the first error
compressSerial(e, idx) ==
  LET stop == IF codecFails(e) /\ e.cfail >= idx THEN e.cfail ELSE Len(e.body) + 1
  IN [err |-> IF stop <= Len(e.body) THEN compress(e, stop).err ELSE "nil",
      e |-> [e EXCEPT !.body =
               [i \in 1..Len(e.body) |->
                  IF i >= idx /\ i < stop THEN compress(e, i).e.body[i]
                  ELSE e.body[i]]]]

\* With compressNP > 1 the workers compress every buffer; a worker whose
\* codec fails blocks on the unbuffered errch, which is only read after
\* wg.Wait(): the call never returns (hung).
compressBodyBuffers(e) ==
  IF e.compressNP <= 1 THEN compressSerial(e, 1)
  ELSE IF codecFails(e) THEN [err |-> "nil", e |-> [e EXCEPT !.hung = TRUE]]
  ELSE compressSerial(e, 1)

RECURSIVE bufferMetadataUnpadded(_, _, _)
\* the offset advances by the length of the buffer without its padding
bufferMetadataUnpadded(body, i, offset) ==
  IF i > Len(body) THEN <<>>
  ELSE LET size == IF body[i].nil THEN 0 ELSE body[i].len
       IN <<[Offset |-> offset, Len |-> size]>>
            \o bufferMetadataUnpadded(body, i + 1, offset + size)

RECURSIVE bufferMetadata(_, _, _)
\* the loop building w.meta: the metadata of buffers i.. from offset
bufferMetadata(body, i, offset) ==
  IF i > Len(body) THEN <<>>
  ELSE LET size == IF body[i].nil THEN 0 ELSE body[i].len
           padding == IF body[i].nil THEN 0 ELSE CeilByte64(size) - size
       IN <<[Offset |-> offset, Len |-> size]>>
            \o bufferMetadata(body, i + 1, offset + size + padding)

\* the offset after the last buffer
endOffset(meta, start) ==
  IF Len(meta) = 0 THEN start
  ELSE meta[Len(meta)].Offset + CeilByte64(meta[Len(meta)].Len)

RECURSIVE visitColumns(_, _, _)
visitColumns(e, cols, i) ==
  IF i > Len(cols) THEN e
  ELSE The({IF e1.err /= "nil" THEN e1 ELSE visitColumns(e1, cols, i + 1) :
              e1 \in {visit(e, cols[i])}})

\* lines 413-441 of encode: the buffer metadata and the size of the body
encodeSizes(e2) ==
  LET meta == bufferMetadata(e2.body, 1, e2.start)
      size == endOffset(meta, e2.start) - e2.start
  IN IF e2.hung THEN e2
     ELSE IF ~IsMultipleOf8(size) THEN [e2 EXCEPT !.meta = meta, !.size = size, !.err = "panic"]
     ELSE [e2 EXCEPT !.meta = meta, !.size = size]

\* lines 409-411 of encode: the error of compressBodyBuffers is not looked
\* at; it is kept in cerr
encodeCompressed(e1) ==
  IF e1.codec /= NoCodec
  THEN The({encodeSizes([c.e EXCEPT !.cerr = c.err]) : c \in {compressBodyBuffers(e1)}})
  ELSE encodeSizes(e1)

encode(e, cols) ==
  The({IF e1.err /= "nil" THEN e1 ELSE encodeCompressed(e1) :
         e1 \in {visitColumns(e, cols, 1)}})

\* recordEncoder.Encode: encode, then the record-batch header
Encode(e, cols) == encode(newPayload(e), cols)

\* dictEncoder.Encode: the dictionary as the one column of a synthetic record
dictEncode(e, dictArr) ==
  [encode([newPayload(e) EXCEPT !.start = 0], <<dictArr>>) EXCEPT !.start = 0]

(***************************************************************************)
(* Dictionaries.  A dictionary array is its identity (tag: two arrays with *)
(* the same tag, values and shape are the same array data), its values and *)
(* the shape of its type.  Values are 1, 2, 3 and NaN; they stand for      *)
(* floats one tolerance apart, so that neighbours are approximately equal. *)
(***************************************************************************)
NaN == 0

Atol == 1

\* the values of dictionaries: NaN and three floats, neighbours one
\* tolerance apart
Vals == {NaN, 1, 2, 3}

\* the dictionary ids of a schema: field i has id i, at most two fields
DictIds == {1, 2}

NumIds == Cardinality(DictIds)

NoDict == [tag |-> 0, vals |-> <<>>, shape |-> "none"]

Dict(tag, vals, shape) == [tag |-> tag, vals |-> vals, shape |-> shape]

\* element comparison of array.ApproxEqual with array.WithNaNsEqual(true)
approxEqualValue(x, y) ==
  IF x = NaN \/ y = NaN THEN x = NaN /\ y = NaN
  ELSE (IF x < y THEN y - x ELSE x - y) <= Atol

\* array.SliceApproxEqual(l, lbeg, lend, r, rbeg, rend, eqopt) on the values
SliceApproxEqual(l, lbeg, lend, r, rbeg, rend) ==
  /\ lend - lbeg = rend - rbeg
  /\ lend <= Len(l)
  /\ rend <= Len(r)
  /\ \A i \in 1..(lend - lbeg) : approxEqualValue(l[lbeg + i], r[rbeg + i])

\* array.ApproxEqual(l, r, eqopt)
ApproxEqual(l, r) ==
  /\ l.shape = r.shape
  /\ Len(l.vals) = Len(r.vals)
  /\ SliceApproxEqual(l.vals, 0, Len(l.vals), r.vals, 0, Len(r.vals))

Float64Arr(n) == Arr("FIXED", 0, n, <<>>, 8, <<>>, <<NilBuf, Buf(8 * n)>>, <<>>)

Int8Arr(n) == Arr("FIXED", 0, n, <<>>, 1, <<>>, <<NilBuf, Buf(paddedLength(n, 8))>>, <<>>)

DictionaryArr(n) == Arr("DICTIONARY", 0, n, <<>>, 0, <<>>, <<>>, <<Int8Arr(n)>>)

StructArr(n, fields) == Arr("STRUCT", 0, n, <<>>, 0, <<>>, <<NilBuf>>, fields)

RECURSIVE Nested(_, _)
\* arr under k Struct levels
Nested(arr, k) == IF k = 0 THEN arr ELSE StructArr(arr.len, <<Nested(arr, k - 1)>>)

\* the array (type tree, buffers) of a dictionary: flat is float64, nested
\* a struct with a dictionary-encoded field, deep a float64 nested under
\* kMaxNestingDepth structs
DictArr(d) ==
  LET n == Len(d.vals)
  IN CASE d.shape = "flat" -> Float64Arr(n)
       [] d.shape = "nested" -> StructArr(n, <<Float64Arr(n), DictionaryArr(n)>>)
       [] d.shape = "deep" -> Nested(Float64Arr(n), kMaxNestingDepth)
       [] OTHER -> Float64Arr(n)

RECURSIVE hasNestedDict(_)
hasNestedDict(data) ==
  IF data.type = "DICTIONARY" THEN TRUE
  ELSE \E i \in 1..Len(data.children) : hasNestedDict(data.children[i])

\* array.NewSlice(dict, deltaStart, dict.Len()) of a dictionary
SliceDict(d, beg) ==
  [d EXCEPT !.vals = SubSeq(d.vals, beg + 1, Len(d.vals))]

\* the array of the slice: the window [beg, len) of the dictionary's array
SliceDictArr(d, beg) == NewSlice(DictArr(d), beg, Len(d.vals))

(***************************************************************************)
(* Reference counts the tracker holds on dictionaries (Retain / Release).  *)
(***************************************************************************)
RefCount(refs, d) == IF d \in DOMAIN refs THEN refs[d] ELSE 0

SetRef(refs, d, n) ==
  IF n = 0 THEN [x \in (DOMAIN refs) \ {d} |-> refs[x]]
  ELSE [x \in (DOMAIN refs) \cup {d} |-> IF x = d THEN n ELSE refs[x]]

Retain(refs, d) == SetRef(refs, d, RefCount(refs, d) + 1)

Release(refs, d) == SetRef(refs, d, RefCount(refs, d) - 1)

(***************************************************************************)
(* The payload sink.  An entry of the sink is one payload (or the EOS      *)
(* marker) handed to it; ok tells whether the sink accepted it.  partial   *)
(* marks a body on which compressBodyBuffers had failed.                   *)
(***************************************************************************)
Entry(msg, id, isDelta, vals, partial, ok) ==
  [msg |-> msg, id |-> id, isDelta |-> isDelta, vals |-> vals,
   partial |-> partial, ok |-> ok]

\* pw.WritePayload: st is the running state of the operation (the sink, the
\* number n of sink calls it made, err); the sink fails on call failAt and
\* a nil pw panics
WritePayload(st, pwOpen, failAt, entry) ==
  IF ~pwOpen THEN [st EXCEPT !.err = "panic"]
  ELSE IF st.n + 1 = failAt
       THEN [st EXCEPT !.n = @ + 1, !.err = "errSink",
                       !.sink = Append(@, [entry EXCEPT !.ok = FALSE])]
       ELSE [st EXCEPT !.n = @ + 1, !.sink = Append(@, entry)]

(***************************************************************************)
(* The dictionary pass.  pairs is the result of CollectDictionaries, st    *)
(* the running state: lastWrittenDicts (lwd), refs, the sink, the encoder. *)
(* freed: the dictionaries the tracker released are gone, reading one      *)
(* panics.                                                                 *)
(***************************************************************************)
\* the delta is taken without comparing the prefix with the last dictionary
deltaStartUnchecked(lastDict, dict, emitDictDeltas) ==
  IF Len(dict.vals) > Len(lastDict.vals) /\ emitDictDeltas /\ ~hasNestedDict(DictArr(dict))
  THEN Len(lastDict.vals) ELSE 0

\* the delta is taken of a dictionary with a nested dictionary too
deltaStartNested(lastDict, dict, emitDictDeltas) ==
  IF /\ Len(dict.vals) > Len(lastDict.vals)
     /\ emitDictDeltas
     /\ SliceApproxEqual(lastDict.vals, 0, Len(lastDict.vals), dict.vals, 0, Len(lastDict.vals))
  THEN Len(lastDict.vals) ELSE 0

\* the first element of the delta, 0 when the full dictionary is written
deltaStartOf(lastDict, dict, emitDictDeltas) ==
  LET newLen == Len(dict.vals)
      lastLen == Len(lastDict.vals)
  IN IF /\ newLen > lastLen
        /\ emitDictDeltas
        /\ ~hasNestedDict(DictArr(dict))
        /\ lastDict.shape = dict.shape
        /\ SliceApproxEqual(lastDict.vals, 0, lastLen, dict.vals, 0, lastLen)
     THEN lastLen ELSE 0

\* only the same array data is skipped
skipSameDataOnly(lastDict, dict) == lastDict = dict

\* same array data, or same dictionary by value
skipDict(lastDict, dict) ==
  \/ lastDict = dict
  \/ Len(lastDict.vals) = Len(dict.vals) /\ ApproxEqual(lastDict, dict)

\* the tracker does not take the dictionary that was written
retainNothing(s2, pair, lastDict) == s2

\* the tracker takes the dictionary whether or not the sink took the payload
retainDictAlways(s2, pair, lastDict) ==
  [s2 EXCEPT !.lwd[pair.id] = pair.dict,
             !.refs = Retain(IF lastDict /= NoDict
                             THEN Release(@, lastDict) ELSE @,
                             pair.dict)]

\* lines 240-244: the tracker takes the dictionary that was written
retainDict(s2, pair, lastDict) ==
  IF s2.err /= "nil" THEN s2
  ELSE [s2 EXCEPT !.lwd[pair.id] = pair.dict,
                  !.refs = Retain(IF lastDict /= NoDict
                                  THEN Release(@, lastDict) ELSE @,
                                  pair.dict)]

\* lines 232-244: the encoded dictionary e1 is written, then retained
writeDict(st, e1, pair, deltaStart, pwOpen, failAt) ==
  LET lastDict == st.lwd[pair.id]
      dict == IF deltaStart > 0 THEN SliceDict(pair.dict, deltaStart) ELSE pair.dict
      s1 == [st EXCEPT !.enc = e1, !.cerr = IF @ = "nil" THEN e1.cerr ELSE @]
  IN IF e1.hung THEN s1
     ELSE IF e1.err /= "nil" THEN [s1 EXCEPT !.err = e1.err]
     ELSE The({retainDict(s2, pair, lastDict) :
                 s2 \in {WritePayload(s1, pwOpen, failAt,
                            Entry("DictionaryBatch", pair.id, deltaStart > 0, dict.vals,
                                  e1.cerr /= "nil", TRUE))}})

\* lines 224-244: encode the dictionary (or its delta), write it, retain it
emitDict(st, pair, deltaStart, pwOpen, failAt) ==
  LET arr == IF deltaStart > 0 THEN SliceDictArr(pair.dict, deltaStart)
             ELSE DictArr(pair.dict)
  IN The({writeDict(st, e1, pair, deltaStart, pwOpen, failAt) :
            e1 \in {dictEncode(st.enc, arr)}})

\* the file format is treated like the stream format
decideAsStream(lastDict, dict, isFileFormat, emitDictDeltas) ==
  IF lastDict = NoDict THEN [do |-> "emit", deltaStart |-> 0]
  ELSE IF skipDict(lastDict, dict) THEN [do |-> "continue", deltaStart |-> 0]
  ELSE [do |-> "emit", deltaStart |-> deltaStartOf(lastDict, dict, emitDictDeltas)]

\* lines 201-222: what the loop does with a dictionary: continue, return
\* the replacement error, or emit from deltaStart
decide(lastDict, dict, isFileFormat, emitDictDeltas) ==
  IF lastDict = NoDict THEN [do |-> "emit", deltaStart |-> 0]
  ELSE IF skipDict(lastDict, dict) THEN [do |-> "continue", deltaStart |-> 0]
  ELSE IF isFileFormat THEN [do |-> "error", deltaStart |-> 0]
  ELSE [do |-> "emit", deltaStart |-> deltaStartOf(lastDict, dict, emitDictDeltas)]

RECURSIVE writeDictionaryPayloads(_, _, _, _, _, _, _, _)
\* the loop over the collected dictionaries, from pair i
writeDictionaryPayloads(st, pairs, i, isFileFormat, emitDictDeltas, pwOpen, failAt, freed) ==
  IF i > Len(pairs) THEN st
  ELSE
    LET pair == pairs[i]
        s0 == [st EXCEPT !.enc = reset(@), !.met = i]
        lastDict == s0.lwd[pair.id]
        next(s) == writeDictionaryPayloads(s, pairs, i + 1, isFileFormat,
                                           emitDictDeltas, pwOpen, failAt, freed)
        body(d) ==
          CASE d.do = "continue" -> next([s0 EXCEPT !.skipped = @ \cup {pair.id}])
            [] d.do = "error" -> [s0 EXCEPT !.err = "errDictionaryReplacement"]
            [] OTHER ->
                 The({IF s1.err /= "nil" \/ s1.enc.hung THEN s1 ELSE next(s1) :
                        s1 \in {emitDict(s0, pair, d.deltaStart, pwOpen, failAt)}})
    IN IF lastDict /= NoDict /\ freed /\ RefCount(s0.refs, lastDict) = 0
       THEN [s0 EXCEPT !.err = "panic"]
       ELSE The({body(d) :
                   d \in {decide(lastDict, pair.dict, isFileFormat, emitDictDeltas)}})

(***************************************************************************)
(* The writer.                                                             *)
(***************************************************************************)
VARIABLES
  cfg,               \* the options the writer was constructed with
  w,                 \* the Writer: started, pw (open or nil), codec, compressNP, emitDictDeltas
  lastWrittenDicts,  \* the tracker: dictionary id -> last written dictionary
  refs,              \* references the tracker holds
  sink,              \* what was handed to the payload sink, in order
  passArgs,          \* isFileFormat and emitDictDeltas of a direct call of the dictionary pass
  pending,           \* the dictionaries collected by the dictionary pass in progress
  last,              \* the last call: op, err, the schema of its record, the pairs it met
  calls,             \* number of calls made so far, by operation
  hung,              \* a call is blocked forever inside the compressor pool
  input,             \* the array and the encoder options of a direct call of the encoder
  encoded,           \* the encoder and payload after that call
  pool               \* the goroutines and channels of a direct call of the compressor pool

vars == <<cfg, w, lastWrittenDicts, refs, sink, passArgs, pending, last, calls, hung,
          input, encoded, pool>>

\* the state of the writer, and the state of the direct calls
writerVars == <<cfg, w, lastWrittenDicts, refs, sink, passArgs, pending, last, calls, hung>>
directVars == <<input, encoded, pool>>

NoInput == [arr |-> <<>>, maxDepth |-> 0, allow64b |-> TRUE, codec |-> NoCodec, cfail |-> 0]
NoEnc == [op |-> "none"]
NoPool == [pc |-> "none"]

\* newConfig(opts...): the schema is the sequence of the shapes of its
\* dictionary fields; field i has dictionary id i
Config(schema, codec, compressNP, emitDictDeltas) ==
  [schema |-> schema, codec |-> codec, compressNP |-> compressNP,
   emitDictDeltas |-> emitDictDeltas]

NewWriterWithPayloadWriter(c) ==
  [ctor |-> "NewWriterWithPayloadWriter", cfg |-> c, started |-> FALSE, pw |-> TRUE,
   schema |-> c.schema, codec |-> c.codec, compressNP |-> c.compressNP,
   emitDictDeltas |-> FALSE]

NewWriter(c) ==
  [ctor |-> "NewWriter", cfg |-> c, started |-> FALSE, pw |-> TRUE,
   schema |-> c.schema, codec |-> c.codec, compressNP |-> 0,
   emitDictDeltas |-> FALSE]

EmptyTracker == [id \in DictIds |-> NoDict]

NoCall == [op |-> "none", err |-> "nil", schema |-> "same",
           met |-> 0, skipped |-> {}, cerr |-> "nil"]

NoPending == [active |-> FALSE, pairs |-> <<>>, failAt |-> 0]

\* the running state of one call
Running(enc) ==
  [err |-> "nil", lwd |-> lastWrittenDicts, refs |-> refs, sink |-> sink,
   n |-> 0, met |-> 0, skipped |-> {}, enc |-> enc, cerr |-> "nil"]

SchemaEntry == Entry("Schema", 0, FALSE, <<>>, FALSE, TRUE)

RecordEntry(partial) == Entry("RecordBatch", 0, FALSE, <<>>, partial, TRUE)

EOSEntry == Entry("EOS", 0, FALSE, <<>>, FALSE, TRUE)

\* line 250: w.started = true, before anything is written
started(wr) == [wr EXCEPT !.started = TRUE]

\* Close forgets to drop the payload writer
closePwKept(wr) == wr

\* line 135: w.pw = nil
closePw(wr) == [wr EXCEPT !.pw = FALSE]

\* start writes no schema payload
startWithoutSchema(st, failAt) == [st EXCEPT !.lwd = EmptyTracker]

\* Writer.start, after started = true: a fresh tracker, then the schema payload
start(st, failAt) ==
  WritePayload([st EXCEPT !.lwd = EmptyTracker], w.pw, failAt, SchemaEntry)

\* the columns of a record: one dictionary-encoded column per dictionary
\* field, then one more column: plain, nested too deep, or of an unknown type
Columns(rec) ==
  [i \in 1..Len(rec.pairs) |-> DictionaryArr(NumRows)] \o
  (CASE rec.extra = "deep" -> <<Nested(Int8Arr(NumRows), kMaxNestingDepth)>>
     [] rec.extra = "unknown" -> <<Arr("UNKNOWN", 0, NumRows, <<>>, 0, <<>>, <<NilBuf>>, <<>>)>>
     [] OTHER -> <<Float64Arr(NumRows)>>)

\* lines 163-180 of Writer.Write: the dictionary pass, then the record batch
writeBatches(st, rec, failAt, freed) ==
  IF rec.extra = "nocollect" THEN [st EXCEPT !.err = "errCollect"]
  ELSE
    LET record(s1, e) ==
          LET s2 == [s1 EXCEPT !.enc = e, !.cerr = IF @ = "nil" THEN e.cerr ELSE @]
          IN IF e.hung THEN s2
             ELSE IF e.err /= "nil" THEN [s2 EXCEPT !.err = e.err]
             ELSE WritePayload(s2, w.pw, failAt, RecordEntry(e.cerr /= "nil"))
        batches(s1) ==
          IF s1.err /= "nil" \/ s1.enc.hung THEN s1
          ELSE The({record(s1, e) : e \in {Encode(reset(s1.enc), Columns(rec))}})
    IN The({batches(s1) :
              s1 \in {writeDictionaryPayloads(st, rec.pairs, 1, FALSE, w.emitDictDeltas,
                                              w.pw, failAt, freed)}})

\* Write without the schema check
writeRecordUnchecked(st, rec, failAt, freed) == writeBatches(st, rec, failAt, freed)

\* lines 158-161 of Writer.Write: the schema check before anything is encoded
writeRecord(st, rec, failAt, freed) ==
  IF rec.schema /= "same" THEN [st EXCEPT !.err = "errInconsistentSchema"]
  ELSE writeBatches(st, rec, failAt, freed)

\* the deferred recover of Write turns a panic into an error
recovered(err) == IF err = "panic" THEN "errUnknown" ELSE err

\* the state a call leaves behind
Returns(op, st, rec, w2) ==
  /\ w' = w2
  /\ lastWrittenDicts' = st.lwd
  /\ refs' = st.refs
  /\ sink' = st.sink
  /\ hung' = st.enc.hung
  /\ last' = [op |-> op, err |-> IF st.enc.hung THEN "hung" ELSE recovered(st.err),
              schema |-> rec.schema, met |-> st.met,
              skipped |-> st.skipped, cerr |-> st.cerr]
  /\ UNCHANGED <<cfg, passArgs, directVars>>

Write(rec, failAt, cfail, freed) ==
  /\ ~hung
  /\ calls.write + calls.close < MaxCalls
  /\ calls' = [calls EXCEPT !.write = @ + 1]
  /\ UNCHANGED pending
  /\ LET enc == withCodecFailure(
                  newRecordEncoder(kMaxNestingDepth, TRUE, w.codec, w.compressNP), cfail)
         s0 == Running(enc)
     IN \E s1 \in {IF ~w.started THEN start(s0, failAt) ELSE s0} :
          \E s2 \in {IF s1.err /= "nil" THEN s1 ELSE writeRecord(s1, rec, failAt, freed)} :
            Returns("Write", s2, rec, started(w))

\* pw.Close() of the stream payload writer: the EOS marker
pwClose(st, failAt) ==
  IF st.n + 1 = failAt
  THEN [st EXCEPT !.n = @ + 1, !.err = "errSink",
                  !.sink = Append(@, [EOSEntry EXCEPT !.ok = FALSE])]
  ELSE [st EXCEPT !.n = @ + 1, !.sink = Append(@, EOSEntry)]

\* Close that releases no dictionary
releaseNone(rs, lwd, id) == rs

RECURSIVE releaseAll(_, _, _)
\* the loop releasing every dictionary of lastWrittenDicts
releaseAll(rs, lwd, id) ==
  IF id > NumIds THEN rs
  ELSE releaseAll(IF lwd[id] /= NoDict THEN Release(rs, lwd[id]) ELSE rs, lwd, id + 1)

NoRecord == [schema |-> "same", pairs |-> <<>>, extra |-> "none"]

Close(failAt) ==
  /\ ~hung
  /\ calls.write + calls.close < MaxCalls
  /\ calls' = [calls EXCEPT !.close = @ + 1]
  /\ UNCHANGED pending
  /\ LET s0 == Running(newRecordEncoder(kMaxNestingDepth, TRUE, w.codec, w.compressNP))
     IN \E s1 \in {IF ~w.started THEN start(s0, failAt) ELSE s0} :
          IF s1.err /= "nil" THEN Returns("Close", s1, NoRecord, started(w))
          ELSE IF ~w.pw THEN Returns("Close", s1, NoRecord, started(w))
          ELSE \E s2 \in {pwClose(s1, failAt)} :
                 IF s2.err /= "nil" THEN Returns("Close", s2, NoRecord, started(w))
                 ELSE Returns("Close", [s2 EXCEPT !.refs = releaseAll(@, s2.lwd, 1)],
                              NoRecord, closePw(started(w)))

(***************************************************************************)
(* The dictionary pass called directly (as the file writer calls it), with *)
(* any isFileFormat and emitDictDeltas, on a fresh payload writer.         *)
(***************************************************************************)
\* line 184: the dictionaries of the batch are collected
CollectDictionaries(pairs, failAt) ==
  /\ ~hung
  /\ ~pending.active
  /\ last = NoCall
  /\ pending' = [active |-> TRUE, pairs |-> pairs, failAt |-> failAt]
  /\ UNCHANGED <<cfg, w, lastWrittenDicts, refs, sink, passArgs, last, calls, hung,
                 directVars>>

\* the caller takes the result and a fresh payload writer for the next batch
NextBatch ==
  /\ ~hung
  /\ ~pending.active
  /\ last /= NoCall
  /\ sink' = <<>>
  /\ last' = NoCall
  /\ UNCHANGED <<cfg, w, lastWrittenDicts, refs, passArgs, pending, calls, hung,
                 directVars>>

\* lines 195-246: the loop over the collected dictionaries
WriteCollected ==
  /\ pending.active
  /\ pending' = NoPending
  /\ calls' = calls
  /\ LET enc == newRecordEncoder(kMaxNestingDepth, TRUE, w.codec, w.compressNP)
     IN \E s \in {writeDictionaryPayloads(Running(enc), pending.pairs, 1,
                     passArgs.isFileFormat, passArgs.emitDictDeltas, w.pw,
                     pending.failAt, FALSE)} :
          Returns("Pass", s, NoRecord, w)

(***************************************************************************)
(* Inputs.                                                                 *)
(***************************************************************************)
RECURSIVE SeqsUpTo(_, _)
\* the sequences over S of length at most n
SeqsUpTo(S, n) ==
  IF n = 0 THEN {<<>>}
  ELSE LET shorter == SeqsUpTo(S, n - 1)
       IN shorter \cup {Append(q, x) : q \in {r \in shorter : Len(r) = n - 1}, x \in S}

\* the dictionaries ["a","b"] and ["a","b","c"]
AB == <<1, 2>>

ABC == <<1, 2, 3>>

Tags == {1, 2}

\* dictionaries of the records handed to Write, by dictionary field:
\* ["a","b"] (two arrays of it) and ["a","b","c"] for the first field
WriterDicts(id, shape) ==
  IF id = 1
  THEN {Dict(1, AB, shape), Dict(2, AB, shape), Dict(1, ABC, shape)}
  ELSE {Dict(1, <<3>>, shape)}

\* dictionaries handed to the dictionary pass: every dictionary for a schema
\* of one field, a few per field otherwise
PassDicts(schema, id) ==
  IF Len(schema) = 1
  THEN {Dict(t, v, schema[id]) : t \in Tags, v \in SeqsUpTo(Vals, MaxDictLen)}
  ELSE {Dict(1, v, schema[id]) : v \in {<<1>>, <<1, 1>>, <<2>>, <<3>>}}

\* the collected dictionaries of a record: one per dictionary field, in
\* field order, the dictionary of field 1 drawn from D1 and of field 2 from D2
PairsOf(schema, D1, D2) ==
  IF Len(schema) = 1
  THEN {<<[id |-> 1, dict |-> d1]>> : d1 \in D1}
  ELSE {<<[id |-> 1, dict |-> d1], [id |-> 2, dict |-> d2]>> : d1 \in D1, d2 \in D2}

\* the collected dictionaries the pass is run on
PassPairs(schema) == PairsOf(schema, PassDicts(schema, 1), PassDicts(schema, 2))

WriterDictsOf(schema, id) == WriterDicts(id, schema[id])

\* the collected dictionaries of the records handed to Write
WriterPairs(schema) ==
  PairsOf(schema, WriterDictsOf(schema, 1),
          IF Len(schema) > 1 THEN WriterDictsOf(schema, 2) ELSE {})

Extras == {"none", "deep", "unknown", "nocollect"}

\* the records with dictionary ["a","b","c"]
WithABC(schema) ==
  {q \in WriterPairs(schema) : q[1].dict = Dict(1, ABC, schema[1])}

\* records of the writer's schema (those that cannot be collected or encoded
\* carry ["a","b","c"]), and records with no or another schema
WriterRecords(schema) ==
  {[schema |-> "same", pairs |-> ps, extra |-> "none"] : ps \in WriterPairs(schema)}
  \cup
  {[schema |-> "same", pairs |-> ps, extra |-> x] :
     ps \in WithABC(schema), x \in Extras \ {"none"}}
  \cup
  {[schema |-> sc, pairs |-> ps, extra |-> "none"] :
     sc \in {"nil", "different"}, ps \in WithABC(schema)}

\* sink calls a Write can make: schema, one per dictionary, record
SinkCalls(schema) == 0..(Len(schema) + 2)

\* body buffers on which the codec can be made to fail
CodecFailAt == {2, 4}

\* at most one fault per call: a failing sink call, a failing codec or a
\* record that cannot be encoded
Faults(rec) ==
  {<<f, 0>> : f \in IF rec.extra /= "none" THEN {0}
                       ELSE IF rec.schema /= "same" THEN {0, 1}
                       ELSE SinkCalls(w.schema)}
  \cup {<<0, c>> : c \in IF rec.extra = "none" /\ rec.schema = "same" /\ w.codec /= NoCodec
                          THEN CodecFailAt ELSE {}}

Shapes == {"flat", "nested", "deep"}

\* schemas of the writer: flat dictionary fields
WriterSchemas == {[i \in 1..k |-> "flat"] : k \in DictIds}

\* schemas of the dictionary pass: at most one field is not flat
PassSchemas ==
  {[i \in 1..k |-> IF i = j THEN sh ELSE "flat"] :
     k \in DictIds, j \in DictIds, sh \in Shapes}

\* the writers: each option (a codec, workers, dictionary deltas) with one
\* dictionary field, deltas requested with two
Writers ==
  {NewWriter(Config(<<"flat">>, NoCodec, 0, FALSE)),
   NewWriter(Config(<<"flat">>, NoCodec, 0, TRUE)),
   NewWriter(Config(<<"flat">>, LZ4, 2, FALSE)),
   NewWriterWithPayloadWriter(Config(<<"flat">>, LZ4, 2, FALSE)),
   NewWriterWithPayloadWriter(Config(<<"flat", "flat">>, NoCodec, 0, TRUE))}

(***************************************************************************)
(* The writer used through Write and Close.                                *)
(***************************************************************************)
Init ==
  /\ w \in Writers
  /\ cfg = w.cfg
  /\ lastWrittenDicts = EmptyTracker
  /\ refs = <<>>
  /\ sink = <<>>
  /\ passArgs = [isFileFormat |-> FALSE, emitDictDeltas |-> FALSE]
  /\ pending = NoPending
  /\ last = NoCall
  /\ calls = [write |-> 0, close |-> 0]
  /\ hung = FALSE
  /\ input = NoInput /\ encoded = NoEnc /\ pool = NoPool

WriteStep ==
  \E rec \in WriterRecords(w.schema) : \E f \in Faults(rec) :
    \E freed \in (IF w.pw THEN {FALSE} ELSE BOOLEAN) :
      Write(rec, f[1], f[2], freed)

CloseStep == \E failAt \in 0..2 : Close(failAt)

Next == WriteStep \/ CloseStep

Spec == Init /\ [][Next]_vars

(***************************************************************************)
(* The dictionary pass on a started writer, with any flags.                *)
(***************************************************************************)
DictInit ==
  /\ cfg \in {Config(sc, NoCodec, 0, d) : sc \in PassSchemas, d \in BOOLEAN}
  /\ w = [NewWriterWithPayloadWriter(cfg) EXCEPT !.started = TRUE]
  /\ lastWrittenDicts = EmptyTracker
  /\ refs = <<>>
  /\ sink = <<>>
  /\ passArgs \in {[isFileFormat |-> ff, emitDictDeltas |-> cfg.emitDictDeltas] :
                     ff \in BOOLEAN}
  /\ pending = NoPending
  /\ last = NoCall
  /\ calls = [write |-> 0, close |-> 0]
  /\ hung = FALSE
  /\ input = NoInput /\ encoded = NoEnc /\ pool = NoPool

\* the sink is made to fail for the schemas of more than one field
CollectStep ==
  \E pairs \in PassPairs(w.schema) :
    \E failAt \in (IF Len(w.schema) = 1 THEN {0} ELSE 0..Len(w.schema)) :
      CollectDictionaries(pairs, failAt)

DictNext == CollectStep \/ WriteCollected \/ NextBatch

DictSpec == DictInit /\ [][DictNext]_vars

(***************************************************************************)
(* Properties of the writer (Spec).                                        *)
(***************************************************************************)
IsBatch(e) == e.msg \in {"DictionaryBatch", "RecordBatch"}

Written(msg) == \E i \in 1..Len(sink) : sink[i].msg = msg /\ sink[i].ok

\* the entries a step appended to the sink
Appended == SubSeq(sink', Len(sink) + 1, Len(sink'))

WriteReturned == calls'.write = calls.write + 1

CloseReturned == calls'.close = calls.close + 1

\* C1: the payloads handed to the sink are Schema first, then per record
\* DictionaryBatch* RecordBatch: the first payload is the Schema, a
\* RecordBatch is followed by nothing but the batches of the next record or
\* the EOS, and no DictionaryBatch or RecordBatch is handed to the sink
\* unless the Schema payload was written before it.
C1_PayloadOrder ==
  /\ Len(sink) > 0 => sink[1].msg = "Schema"
  /\ \A i \in 2..Len(sink) : sink[i].msg /= "Schema"
  /\ \A i \in 1..Len(sink) :
        IsBatch(sink[i]) =>
          \E j \in 1..(i - 1) : sink[j].msg = "Schema" /\ sink[j].ok

\* C2: once Close has written the EOS marker nothing more is handed to the
\* sink, and a Write that returns after that returns an error.
C2_EOSLast ==
  /\ \A i \in 1..Len(sink) : (sink[i].msg = "EOS" /\ sink[i].ok) => i = Len(sink)
  /\ (Written("EOS") /\ last.op = "Write" /\ ~hung) => last.err /= "nil"

\* a record was handed to Write after the EOS marker was written
C2_Witness ==
  /\ Written("EOS")
  /\ last.op = "Write"
  /\ last.schema = "same"
  /\ last.err = "errUnknown"
  /\ \E i \in 1..Len(sink) : sink[i].msg = "RecordBatch"

\* C3 as stated: after a first call to Close, whatever it returned, every
\* later Close emits nothing, releases nothing and leaves the writer as it is.
C3_CloseIdempotent ==
  [][(calls.close >= 1 /\ CloseReturned) =>
       (sink' = sink /\ refs' = refs /\ w' = w /\ lastWrittenDicts' = lastWrittenDicts)]_vars

\* C3 amended: after a call to Close that returned nil (it wrote the EOS
\* marker), every later Close emits nothing, releases nothing, returns nil
\* and leaves the writer as it is.
C3_CloseIdempotentAfterSuccess ==
  [][(Written("EOS") /\ CloseReturned) =>
       (/\ sink' = sink /\ refs' = refs /\ w' = w
        /\ lastWrittenDicts' = lastWrittenDicts /\ last'.err = "nil")]_vars

\* Close was called again after a Close that released a retained dictionary
C3_Witness ==
  /\ calls.close = 2
  /\ calls.write = 1
  /\ last.op = "Close"
  /\ Written("EOS")
  /\ Written("DictionaryBatch")
  /\ \A i \in 1..Len(sink) : sink[i].ok
  /\ lastWrittenDicts[1] /= NoDict

\* C4: a Close that is the first call on the writer calls start: it hands
\* the Schema payload to the sink and, when the sink took it, the EOS marker
\* and nothing else; when it returns nil the sink holds exactly the written
\* Schema payload and the written EOS marker.
C4_EmptyStream ==
  (calls.write = 0 /\ calls.close = 1) =>
    /\ w.started
    /\ Len(sink) >= 1
    /\ sink[1].msg = "Schema"
    /\ ~sink[1].ok => (Len(sink) = 1 /\ last.err = "errSink")
    /\ sink[1].ok => (Len(sink) = 2 /\ sink[2].msg = "EOS")
    /\ last.err = "nil" => sink = <<SchemaEntry, EOSEntry>>

\* the writer was closed without any Write
C4_Witness ==
  /\ calls.write = 0
  /\ calls.close = 1
  /\ last.op = "Close"
  /\ last.err = "nil"
  /\ ~w.pw

\* C5 as stated: a Write of a record with no or another schema fails with
\* InconsistentSchema, emits no DictionaryBatch and no RecordBatch and leaves
\* lastWrittenDicts unchanged.
C5_InconsistentSchema ==
  [][(WriteReturned /\ last'.schema /= "same") =>
       (/\ last'.err = "errInconsistentSchema"
        /\ \A i \in 1..Len(Appended) : ~IsBatch(Appended[i])
        /\ lastWrittenDicts' = lastWrittenDicts)]_vars

\* C5 amended: such a Write fails: with InconsistentSchema, or, when it is
\* the call that starts the stream and the sink rejects the Schema payload,
\* with the sink's error; it emits no DictionaryBatch and no RecordBatch and
\* leaves lastWrittenDicts unchanged.
C5_InconsistentSchemaOnceStarted ==
  [][(WriteReturned /\ last'.schema /= "same") =>
       (/\ \/ last'.err = "errInconsistentSchema"
           \/ /\ last'.err = "errSink"
              /\ ~w.started
              /\ Len(Appended) = 1
              /\ Appended[1].msg = "Schema" /\ ~Appended[1].ok
        /\ \A i \in 1..Len(Appended) : ~IsBatch(Appended[i])
        /\ lastWrittenDicts' = lastWrittenDicts)]_vars

\* a record of another schema was refused after a dictionary was retained
C5_Witness ==
  /\ last.op = "Write"
  /\ last.schema = "different"
  /\ last.err = "errInconsistentSchema"
  /\ lastWrittenDicts[1] /= NoDict
  /\ lastWrittenDicts[1].vals /= ABC

\* C7: with emit_dict_deltas=true and one dictionary field, after the
\* record with dictionary ["a","b"] was written, a successful Write of a
\* record with dictionary ["a","b","c"] hands exactly
\* DictionaryBatch(isDelta=true, ["c"]) and a RecordBatch to the sink.
C7_DeltaScenario ==
  [][(/\ cfg.emitDictDeltas
      /\ Len(w.schema) = 1
      /\ sink = <<SchemaEntry,
                  Entry("DictionaryBatch", 1, FALSE, AB, FALSE, TRUE),
                  RecordEntry(FALSE)>>
      /\ WriteReturned
      /\ last'.err = "nil"
      /\ lastWrittenDicts'[1].vals = ABC) =>
       Appended = <<Entry("DictionaryBatch", 1, TRUE, <<3>>, FALSE, TRUE),
                    RecordEntry(FALSE)>>]_vars

\* C10: when compressing a body buffer fails, Write returns an error and no
\* RecordBatch built from that body is handed to the sink.
C10_CompressionSurfaced ==
  /\ (last.op = "Write" /\ last.cerr /= "nil" /\ ~hung) => last.err /= "nil"
  /\ \A i \in 1..Len(sink) : sink[i].msg = "RecordBatch" => ~sink[i].partial

(***************************************************************************)
(* Properties of the dictionary pass (DictSpec).                           *)
(***************************************************************************)
\* the step in which the loop over the collected dictionaries ran
PassReturned == pending.active /\ ~pending'.active

\* equal by value: same length and element-wise approximately equal, NaNs equal
SameByValue(l, r) ==
  /\ Len(l) = Len(r)
  /\ \A k \in 1..Len(l) : approxEqualValue(l[k], r[k])

\* the step handed a DictionaryBatch for id to the sink
EmittedFor(id) == \E j \in 1..Len(sink') : sink'[j].id = id

\* C6: for a dictionary id whose new dictionary is the same array data as
\* the retained one, or has the same length and is approximately equal to it
\* (NaNs equal), the dictionary pass emits no DictionaryBatch.
C6_IdentitySkip ==
  [][PassReturned =>
       \A i \in 1..Len(pending.pairs) :
         LET p == pending.pairs[i]
             prior == lastWrittenDicts[p.id]
         IN (prior /= NoDict /\
             (prior = p.dict \/ SameByValue(prior.vals, p.dict.vals)))
            => ~EmittedFor(p.id)]_vars

\* a pass skipped a dictionary and handed nothing to the sink
C6_Witness ==
  /\ last.op = "Pass"
  /\ last.err = "nil"
  /\ last.skipped /= {}
  /\ sink = <<>>

\* C8: when the pass emits a DictionaryBatch with isDelta=true for an id,
\* the dictionary retained for the id before, followed by the emitted slice,
\* equals the new dictionary of the record by value.
C8_DeltaValidity ==
  [][PassReturned =>
       \A j \in 1..Len(sink') :
         sink'[j].isDelta =>
           SameByValue(lastWrittenDicts[sink'[j].id].vals \o sink'[j].vals,
                       pending.pairs[sink'[j].id].dict.vals)]_vars

\* a pass emitted a delta that the sink accepted
C8_Witness ==
  /\ last.op = "Pass"
  /\ \E j \in 1..Len(sink) :
        /\ sink[j].isDelta /\ sink[j].ok
        /\ Len(lastWrittenDicts[sink[j].id].vals) > Len(sink[j].vals)

\* C9: in the file format, when the pass reaches an id that has a retained
\* dictionary and whose new dictionary is neither the same array data nor
\* equal by value, it fails with the dictionary replacement error, emits no
\* DictionaryBatch for the id and leaves its retained dictionary unchanged.
C9_FileFormatReplacement ==
  [][(PassReturned /\ passArgs.isFileFormat) =>
       \A i \in 1..last'.met :
         LET p == pending.pairs[i]
             prior == lastWrittenDicts[p.id]
         IN (prior /= NoDict /\ prior /= p.dict /\ ~SameByValue(prior.vals, p.dict.vals))
            => /\ last'.err = "errDictionaryReplacement"
               /\ ~EmittedFor(p.id)
               /\ lastWrittenDicts'[p.id] = prior]_vars

\* a file-format pass refused to replace a retained dictionary
C9_Witness ==
  /\ passArgs.isFileFormat
  /\ last.op = "Pass"
  /\ last.err = "errDictionaryReplacement"
  /\ last.met > 0
  /\ lastWrittenDicts[last.met] /= NoDict

(***************************************************************************)
(* The record encoder called directly on one array: visit, and Encode of   *)
(* the record with that one column.  The arrays are windows [offset,       *)
(* offset+len) of phys physical elements, with no nulls, a null first      *)
(* element or only nulls.                                                  *)
(***************************************************************************)
Nulls == {"none", "first", "all"}

ValidBits(phys, nulls) ==
  CASE nulls = "all" -> [i \in 1..phys |-> 0]
    [] nulls = "first" -> [i \in 1..phys |-> IF i = 1 THEN 0 ELSE 1]
    [] OTHER -> <<>>

ValidBuf(phys, nulls) ==
  IF ValidBits(phys, nulls) = <<>> THEN NilBuf ELSE Buf(BytesForBits(phys))

\* the windows of arrays of at most NumRows physical elements
Windows ==
  {[phys |-> p, offset |-> o, len |-> n] :
     p \in 0..NumRows, o \in 0..NumRows, n \in 0..NumRows} 

Window(win) == win.offset + win.len <= win.phys

NullArr(win) ==
  Arr("NULL", win.offset, win.len, [i \in 1..win.phys |-> 0], 0, <<>>, <<NilBuf>>, <<>>)

BoolArr(win, nulls) ==
  Arr("BOOL", win.offset, win.len, ValidBits(win.phys, nulls), 0, <<>>,
      <<ValidBuf(win.phys, nulls), Buf(BytesForBits(win.phys))>>, <<>>)

\* int32 values
Int32Arr(win, nulls) ==
  Arr("FIXED", win.offset, win.len, ValidBits(win.phys, nulls), 4, <<>>,
      <<ValidBuf(win.phys, nulls), Buf(4 * win.phys)>>, <<>>)

\* Binary and String values of i bytes for element i; an array of no
\* physical elements has an empty offsets buffer
BytesArr(type, win, nulls) ==
  LET offs == IF win.phys = 0 THEN <<>>
              ELSE [i \in 1..(win.phys + 1) |-> ((i - 1) * i) \div 2]
  IN Arr(type, win.offset, win.len, ValidBits(win.phys, nulls), 0, offs,
         <<ValidBuf(win.phys, nulls), Buf(4 * Len(offs)),
           Buf((win.phys * (win.phys + 1)) \div 2)>>, <<>>)

Whole(n) == [phys |-> n, offset |-> 0, len |-> n]

\* a Struct of an int32 and a string field
StructOf(win, nulls) ==
  Arr("STRUCT", win.offset, win.len, ValidBits(win.phys, nulls), 0, <<>>,
      <<ValidBuf(win.phys, nulls)>>,
      <<Int32Arr(Whole(win.phys), "none"), BytesArr("STRING", Whole(win.phys), "first")>>)

\* a List or Map of two values per element
ListOf(type, child, win, nulls) ==
  LET offs == IF win.phys = 0 THEN <<>> ELSE [i \in 1..(win.phys + 1) |-> 2 * (i - 1)]
  IN Arr(type, win.offset, win.len, ValidBits(win.phys, nulls), 0, offs,
         <<ValidBuf(win.phys, nulls), Buf(4 * Len(offs))>>, <<child>>)

\* a FixedSizeList of two values per element
FixedSizeListOf(child, win, nulls) ==
  Arr("FSL", win.offset, win.len, ValidBits(win.phys, nulls), 2, <<>>,
      <<ValidBuf(win.phys, nulls)>>, <<child>>)

DictionaryOf(indices) ==
  Arr("DICTIONARY", indices.offset, indices.len, indices.valid, 0, <<>>, <<>>, <<indices>>)

ExtensionOf(storage) ==
  Arr("EXTENSION", storage.offset, storage.len, storage.valid, 0, <<>>, <<>>, <<storage>>)

\* the arrays without children
Leaves ==
  {NullArr(win) : win \in {x \in Windows : Window(x)}}
  \cup {BoolArr(win, n) : win \in {x \in Windows : Window(x)}, n \in Nulls}
  \cup {Int32Arr(win, n) : win \in {x \in Windows : Window(x)}, n \in Nulls}
  \cup {BytesArr(t, win, n) :
          t \in {"BINARY", "STRING"}, win \in {x \in Windows : Window(x)}, n \in Nulls}

\* the arrays with children: every window of a Struct, a List, a Map and a
\* FixedSizeList, and every leaf as the indices of a Dictionary and as the
\* storage of an Extension
Containers ==
  {StructOf(win, n) : win \in {x \in Windows : Window(x)}, n \in {"none", "first"}}
  \cup {ListOf(t, Int32Arr(Whole(2 * win.phys), "none"), win, n) :
          t \in {"LIST", "MAP"}, win \in {x \in Windows : Window(x)}, n \in {"none", "first"}}
  \cup {FixedSizeListOf(Int32Arr(Whole(2 * win.phys), "first"), win, n) :
          win \in {x \in Windows : Window(x)}, n \in {"none", "first"}}
  \cup {DictionaryOf(a) : a \in Leaves}
  \cup {ExtensionOf(a) : a \in Leaves}

RECURSIVE Chain(_, _, _)
\* arr under k containers of the kinds of the pattern, taken in turn
Chain(arr, pattern, k) ==
  IF k = 0 THEN arr
  ELSE LET kind == pattern[((k - 1) % Len(pattern)) + 1]
           inner == Chain(arr, pattern, k - 1)
       IN CASE kind = "STRUCT" ->
                 Arr("STRUCT", 0, 1, <<>>, 0, <<>>, <<NilBuf>>, <<Int32Arr(Whole(1), "none"), inner>>)
            [] kind = "LIST" ->
                 Arr("LIST", 0, 1, <<>>, 0, <<0, 1>>, <<NilBuf, Buf(8)>>, <<inner>>)
            [] kind = "FSL" ->
                 Arr("FSL", 0, 1, <<>>, 1, <<>>, <<NilBuf>>, <<inner>>)
            [] kind = "DICTIONARY" -> DictionaryOf(inner)
            [] OTHER -> ExtensionOf(inner)

Patterns ==
  {<<"STRUCT">>, <<"LIST", "FSL">>, <<"FSL", "EXTENSION">>, <<"DICTIONARY", "STRUCT">>}

\* arrays nested up to one level beyond the depth budget; the innermost is
\* an int32 array or an array of an unknown type
Chains ==
  {Chain(a, pat, k) :
     a \in {Int32Arr(Whole(1), "none"),
            Arr("UNKNOWN", 0, 1, <<>>, 0, <<>>, <<NilBuf>>, <<>>)},
     pat \in Patterns, k \in 0..(2 * kMaxNestingDepth + 2)}

\* the direct calls: every array with the defaults, the nested ones with a
\* smaller depth budget too, the leaves without 64-bit lengths, the
\* containers with a codec that works or fails
EncInputs ==
  {[arr |-> a, maxDepth |-> kMaxNestingDepth, allow64b |-> TRUE, codec |-> NoCodec, cfail |-> 0] :
     a \in Leaves \cup Containers \cup Chains}
  \cup {[arr |-> a, maxDepth |-> d, allow64b |-> TRUE, codec |-> NoCodec, cfail |-> 0] :
          a \in Chains, d \in {0, 1, 2}}
  \cup {[arr |-> a, maxDepth |-> kMaxNestingDepth, allow64b |-> b, codec |-> NoCodec, cfail |-> 0] :
          a \in Leaves, b \in {FALSE}}
  \cup {[arr |-> a, maxDepth |-> kMaxNestingDepth, allow64b |-> TRUE, codec |-> LZ4, cfail |-> k] :
          a \in Containers, k \in {0, 2}}

\* the encoder of a direct call
InputEncoder ==
  withCodecFailure(
    newRecordEncoder(input.maxDepth, input.allow64b, input.codec, 0), input.cfail)

\* w.visit(p, arr) on a new encoder and an empty payload
VisitArray ==
  /\ encoded.op = "none"
  /\ encoded' = [op |-> "visit", e |-> visit(InputEncoder, input.arr)]
  /\ UNCHANGED <<writerVars, input, pool>>

\* w.Encode(p, rec) for the record whose one column is the array
EncodeRecord ==
  /\ encoded.op = "none"
  /\ encoded' = [op |-> "encode", e |-> Encode(InputEncoder, <<input.arr>>)]
  /\ UNCHANGED <<writerVars, input, pool>>

\* no writer is in use
NoWriter ==
  /\ cfg = Config(<<"flat">>, NoCodec, 0, FALSE)
  /\ w = NewWriter(cfg)
  /\ lastWrittenDicts = EmptyTracker
  /\ refs = <<>>
  /\ sink = <<>>
  /\ passArgs = [isFileFormat |-> FALSE, emitDictDeltas |-> FALSE]
  /\ pending = NoPending
  /\ last = NoCall
  /\ calls = [write |-> 0, close |-> 0]
  /\ hung = FALSE

EncInit ==
  /\ NoWriter
  /\ input \in EncInputs
  /\ encoded = NoEnc
  /\ pool = NoPool

EncNext == VisitArray \/ EncodeRecord

EncSpec == EncInit /\ [][EncNext]_vars

(***************************************************************************)
(* Properties of the record encoder (EncSpec).                             *)
(***************************************************************************)
\* the length of a body buffer, 0 for an absent one
BufLen(b) == IF b.nil THEN 0 ELSE b.len

RECURSIVE PaddedSum(_, _)
\* the sum of the lengths of the first n body buffers, each rounded up to a
\* multiple of 8
PaddedSum(body, n) ==
  IF n = 0 THEN 0
  ELSE PaddedSum(body, n - 1) + ((BufLen(body[n]) + 7) \div 8) * 8

\* C11: in every payload encode produced, buffer metadata i has Offset equal
\* to the sum of the padded lengths of the buffers before it and Len equal to
\* the unpadded length of buffer i; the offsets are multiples of 8 and do not
\* decrease, the body size is the sum of the padded lengths and a multiple of
\* 8, and encode did not panic.
C11_Alignment ==
  (encoded.op = "encode" /\ (encoded.e.err = "nil" \/ encoded.e.meta /= <<>>)) =>
    LET e == encoded.e
    IN /\ e.err = "nil"
       /\ Len(e.meta) = Len(e.body)
       /\ \A i \in 1..Len(e.meta) :
            /\ e.meta[i].Offset = PaddedSum(e.body, i - 1)
            /\ e.meta[i].Len = BufLen(e.body[i])
            /\ e.meta[i].Offset % 8 = 0
            /\ i > 1 => e.meta[i - 1].Offset <= e.meta[i].Offset
       /\ e.size = PaddedSum(e.body, Len(e.body))
       /\ e.size % 8 = 0

\* a payload with a buffer whose length is no multiple of 8 before another
\* buffer that is present
C11_Witness ==
  /\ encoded.op = "encode"
  /\ encoded.e.err = "nil"
  /\ \E i \in 1..Len(encoded.e.body) :
       /\ BufLen(encoded.e.body[i]) % 8 /= 0
       /\ \E j \in (i + 1)..Len(encoded.e.body) : BufLen(encoded.e.body[j]) > 0

RECURSIVE BufferCount(_)
RECURSIVE BufferCountAll(_, _)
\* the number of body buffers prescribed for an array by its type
BufferCount(arr) ==
  CASE arr.type = "NULL" -> 0
    [] arr.type \in {"BOOL", "FIXED"} -> 2
    [] arr.type \in {"BINARY", "STRING"} -> 3
    [] arr.type \in {"LIST", "MAP"} -> 2 + BufferCount(arr.children[1])
    [] arr.type = "FSL" -> 1 + BufferCount(arr.children[1])
    [] arr.type = "STRUCT" -> 1 + BufferCountAll(arr.children, Len(arr.children))
    [] arr.type \in {"DICTIONARY", "EXTENSION"} -> BufferCount(arr.children[1])
    [] OTHER -> 0

\* the buffers of the first n arrays of a sequence
BufferCountAll(arrs, n) ==
  IF n = 0 THEN 0 ELSE BufferCountAll(arrs, n - 1) + BufferCount(arrs[n])

\* C12: when visit succeeds on an array, the number of body buffers it
\* appended, absent ones included, is the count prescribed by the types of
\* the array and of the arrays below it.
C12_BufferCount ==
  (encoded.op = "visit" /\ encoded.e.err = "nil") =>
    Len(encoded.e.body) = BufferCount(input.arr)

\* a Struct was visited: its validity buffer is absent, the buffers of its
\* two fields follow
C12_Witness ==
  /\ encoded.op = "visit"
  /\ encoded.e.err = "nil"
  /\ input.arr.type = "STRUCT"
  /\ input.arr.offset > 0
  /\ Len(encoded.e.body) = 6
  /\ encoded.e.body[1].nil

(***************************************************************************)
(* More properties of the dictionary pass (DictSpec).                      *)
(***************************************************************************)
\* the places in the sink where the step put a DictionaryBatch for id
EntriesFor(id) == {j \in 1..Len(sink') : sink'[j].id = id}

\* the pass got as far as handing the dictionary of pair i to the sink: the
\* loop went beyond pair i, or stopped at it with the sink's error
HandedToSink(i) == i < last'.met \/ last'.err \in {"nil", "errSink"}

\* C13: when the pass meets an id for which the tracker holds no dictionary,
\* whatever emitDictDeltas and isFileFormat are, the one DictionaryBatch it
\* builds for the id carries the full dictionary with isDelta=false; it is
\* handed to the sink unless encoding the dictionary failed, and once the
\* sink took it the tracker holds the dictionary for the id.
C13_FirstDictionary ==
  [][PassReturned =>
       \A i \in 1..last'.met :
         LET p == pending.pairs[i]
         IN lastWrittenDicts[p.id] = NoDict =>
              /\ Cardinality(EntriesFor(p.id)) <= 1
              /\ \A j \in EntriesFor(p.id) :
                   /\ ~sink'[j].isDelta
                   /\ sink'[j].vals = p.dict.vals
                   /\ sink'[j].ok => lastWrittenDicts'[p.id] = p.dict
              /\ HandedToSink(i) => Cardinality(EntriesFor(p.id)) = 1]_vars

\* a file-format pass with deltas enabled wrote the first dictionary of id 1
C13_Witness ==
  /\ passArgs.isFileFormat
  /\ passArgs.emitDictDeltas
  /\ last.op = "Pass"
  /\ last.err = "nil"
  /\ Len(sink) = 1
  /\ sink[1].id = 1 /\ sink[1].ok /\ ~sink[1].isDelta
  /\ Len(sink[1].vals) = MaxDictLen
  /\ lastWrittenDicts[1].vals = sink[1].vals

\* the new dictionary begins with the prior one, by value
ExtendsPrior(prior, new) ==
  /\ Len(new) > Len(prior)
  /\ \A k \in 1..Len(prior) : approxEqualValue(prior[k], new[k])

\* the step handed one DictionaryBatch for the dictionary of pair i to the
\* sink: a delta with the values from from + 1 on, or the full dictionary
EmittedAs(i, isDelta, from) ==
  LET p == pending.pairs[i]
  IN /\ Cardinality(EntriesFor(p.id)) = 1
     /\ \A j \in EntriesFor(p.id) :
          /\ sink'[j].isDelta = isDelta
          /\ sink'[j].vals = SubSeq(p.dict.vals, from + 1, Len(p.dict.vals))

\* the stream-format pass handed the dictionary of pair i, which replaces a
\* retained one and is not skipped, to the sink
Replaces(i) ==
  LET p == pending.pairs[i]
      prior == lastWrittenDicts[p.id]
  IN /\ PassReturned
     /\ ~passArgs.isFileFormat
     /\ i \in 1..last'.met
     /\ HandedToSink(i)
     /\ prior /= NoDict
     /\ prior /= p.dict
     /\ ~SameByValue(prior.vals, p.dict.vals)

\* emitDictDeltas is enabled, the new dictionary of pair i has no nested
\* dictionary, is longer than the prior one and begins with it
DeltaConditions(i) ==
  LET p == pending.pairs[i]
  IN /\ passArgs.emitDictDeltas
     /\ ~hasNestedDict(DictArr(p.dict))
     /\ ExtendsPrior(lastWrittenDicts[p.id].vals, p.dict.vals)

\* C14 as stated: for a prior dictionary of any length, 0 included, the
\* pass emits the slice [lastLen, newLen) with isDelta=true when the delta
\* conditions hold, and the full dictionary with isDelta=false when not.
C14_DeltaOrFull ==
  [][\A i \in 1..Len(pending.pairs) :
       Replaces(i) =>
         IF DeltaConditions(i)
         THEN EmittedAs(i, TRUE, Len(lastWrittenDicts[pending.pairs[i].id].vals))
         ELSE EmittedAs(i, FALSE, 0)]_vars

\* C14 amended: the delta is emitted when the delta conditions hold and the
\* prior dictionary is not empty; when a condition fails, or the prior
\* dictionary is empty, the full dictionary is emitted with isDelta=false.
C14_DeltaOrFullNonEmptyPrior ==
  [][\A i \in 1..Len(pending.pairs) :
       Replaces(i) =>
         IF DeltaConditions(i) /\ Len(lastWrittenDicts[pending.pairs[i].id].vals) > 0
         THEN EmittedAs(i, TRUE, Len(lastWrittenDicts[pending.pairs[i].id].vals))
         ELSE EmittedAs(i, FALSE, 0)]_vars

\* a stream-format pass with deltas enabled emitted the last value of a
\* dictionary of MaxDictLen values as a delta
C14_Witness ==
  /\ ~passArgs.isFileFormat
  /\ passArgs.emitDictDeltas
  /\ last.op = "Pass"
  /\ last.err = "nil"
  /\ \E j \in 1..Len(sink) :
       /\ sink[j].isDelta
       /\ Len(sink[j].vals) = 1
       /\ Len(lastWrittenDicts[sink[j].id].vals) = MaxDictLen

\* the DictionaryBatch payloads for id that the step handed to the sink and
\* the sink accepted
Accepted(id) ==
  {j \in (Len(sink) + 1)..Len(sink') :
     /\ sink'[j].msg = "DictionaryBatch"
     /\ sink'[j].id = id
     /\ sink'[j].ok}

\* C15: a pass changes the tracker entry of an id exactly when the sink
\* accepted a DictionaryBatch for that id, and the entry is then the full
\* dictionary of the record; every other entry is as before the pass, also
\* when the pass fails after it has updated other entries.
C15_TrackerFrame ==
  [][PassReturned =>
       \A id \in DictIds :
         IF Accepted(id) = {}
         THEN lastWrittenDicts'[id] = lastWrittenDicts[id]
         ELSE /\ lastWrittenDicts'[id] /= lastWrittenDicts[id]
              /\ \E i \in 1..last'.met :
                   /\ pending.pairs[i].id = id
                   /\ lastWrittenDicts'[id] = pending.pairs[i].dict]_vars

\* a pass over two dictionaries failed at the sink on the second one: the
\* first is retained, the second is not
C15_Witness ==
  /\ last.op = "Pass"
  /\ last.err = "errSink"
  /\ Len(sink) = 2
  /\ sink[1].ok /\ ~sink[2].ok
  /\ sink[1].id /= sink[2].id
  /\ lastWrittenDicts[sink[1].id] /= NoDict
  /\ lastWrittenDicts[sink[1].id].vals = sink[1].vals
  /\ lastWrittenDicts[sink[2].id] = NoDict

(***************************************************************************)
(* More properties of the Writer (Spec).                                   *)
(***************************************************************************)
\* the dictionaries the tracker names or holds a reference to
Tracked ==
  ({lastWrittenDicts[id] : id \in DictIds} \ {NoDict}) \cup DOMAIN refs

\* the number of entries of lastWrittenDicts that are the dictionary d
EntriesOf(d) == Cardinality({id \in DictIds : lastWrittenDicts[id] = d})

\* C16 as stated: after any sequence of Write and Close calls the tracker
\* holds exactly one reference for each entry of lastWrittenDicts and none
\* for any other dictionary.
C16_OneReferencePerEntry ==
  \A d \in Tracked : RefCount(refs, d) = EntriesOf(d)

\* C16 amended: until Close has succeeded the tracker holds exactly one
\* reference for each entry of lastWrittenDicts and none for any other
\* dictionary; once Close has succeeded it holds no reference at all, its
\* entries are kept, and no later Write or Close releases anything.
C16_OneReferenceUntilClosed ==
  \A d \in Tracked : RefCount(refs, d) = IF w.pw THEN EntriesOf(d) ELSE 0

\* a Write returned on a writer that was closed with a dictionary in its
\* tracker
C16_Witness ==
  /\ last.op = "Write"
  /\ ~w.pw
  /\ calls.close > 0
  /\ \E id \in DictIds : lastWrittenDicts[id] /= NoDict

\* a Write replaced a retained dictionary by another one
C16_ReplacedWitness ==
  /\ last.op = "Write"
  /\ w.pw
  /\ calls.write > 1
  /\ \E j \in 1..Len(sink) : \E k \in (j + 1)..Len(sink) :
       /\ sink[j].msg = "DictionaryBatch" /\ sink[k].msg = "DictionaryBatch"
       /\ sink[j].id = sink[k].id
       /\ sink[j].ok /\ sink[k].ok

(***************************************************************************)
(* The worker pool of compressBodyBuffers (compressNP > 1), goroutine by   *)
(* goroutine.  pool.pc is the position of the calling goroutine, after it  *)
(* has started the workers; workers[k] is the position of worker k.  ch    *)
(* and errch are unbuffered: a send and its receive are one step.          *)
(* received is the history of the indices taken from ch, body0 the body    *)
(* at the call.                                                            *)
(***************************************************************************)
MaxBody == 3

\* the buffers of a payload body: absent, zero-length, non-empty
BodyBuffers == {NilBuf, Buf(0), Buf(8)}

Bodies == SeqsUpTo(BodyBuffers, MaxBody)

PoolSizes == {2, 3}

\* lines 354-386: the channels, the context and the compressNP workers
Pool(body, np, cfail) ==
  [pc |-> "send", body |-> body, body0 |-> body, cfail |-> cfail, np |-> np,
   idx |-> 1, chClosed |-> FALSE, errClosed |-> FALSE, cancelled |-> FALSE,
   wg |-> np,
   workers |-> [k \in 1..np |-> [pc |-> "select", idx |-> 0, err |-> "nil"]],
   received |-> <<>>, err |-> "nil"]

\* the encoder whose payload body the workers compress
PoolEncoder(body, cfail) ==
  [withCodecFailure(newRecordEncoder(kMaxNestingDepth, TRUE, LZ4, 2), cfail)
     EXCEPT !.body = body]

\* worker k takes index 1, whatever the caller sent
dispatchFirstIndex(p, k) ==
  [p EXCEPT !.idx = @ + 1,
            !.workers[k] = [pc |-> "compress", idx |-> 1, err |-> "nil"],
            !.received = Append(@, [worker |-> k, idx |-> 1])]

\* lines 388-390 and 369: `ch <- idx` meets `case idx, ok := <-ch` of worker k
dispatch(p, k) ==
  [p EXCEPT !.idx = @ + 1,
            !.workers[k] = [pc |-> "compress", idx |-> p.idx, err |-> "nil"],
            !.received = Append(@, [worker |-> k, idx |-> p.idx])]

\* the caller does not wait for the workers
wgNotAwaited(p) == TRUE

\* line 393: wg.Wait() returns when every worker has run its deferred wg.Done()
wgDone(p) == p.wg = 0

\* the workers blocked in `errch <- err`
Senders(p) == {k \in 1..p.np : p.workers[k].pc = "senderr"}

Send(k) ==
  /\ pool.pc = "send"
  /\ pool.idx <= Len(pool.body)
  /\ pool.workers[k].pc = "select"
  /\ pool' = dispatch(pool, k)
  /\ UNCHANGED <<writerVars, input, encoded>>

\* line 392: close(ch) after the last index
CloseCh ==
  /\ pool.pc = "send"
  /\ pool.idx > Len(pool.body)
  /\ pool' = [pool EXCEPT !.pc = "wait", !.chClosed = TRUE]
  /\ UNCHANGED <<writerVars, input, encoded>>

\* lines 369-373 and 380-382: worker k finds ch closed or the context
\* cancelled and returns; its deferred wg.Done() runs
SelectReturns(k) ==
  /\ pool.workers[k].pc = "select"
  /\ pool.chClosed \/ pool.cancelled
  /\ pool' = [pool EXCEPT !.workers[k].pc = "done", !.wg = @ - 1]
  /\ UNCHANGED <<writerVars, input, encoded>>

\* line 375: worker k compresses the buffer of its index; on an error it goes
\* on to `errch <- err`
Compress(k) ==
  /\ pool.workers[k].pc = "compress"
  /\ \E r \in {compress(PoolEncoder(pool.body, pool.cfail), pool.workers[k].idx)} :
       pool' = IF r.err /= "nil"
               THEN [pool EXCEPT !.workers[k].pc = "senderr", !.workers[k].err = r.err]
               ELSE [pool EXCEPT !.workers[k].pc = "select", !.body = r.e.body]
  /\ UNCHANGED <<writerVars, input, encoded>>

Wait ==
  /\ pool.pc = "wait"
  /\ wgDone(pool)
  /\ pool' = [pool EXCEPT !.pc = "closeErrch"]
  /\ UNCHANGED <<writerVars, input, encoded>>

\* line 394: close(errch); a worker blocked in its send panics
CloseErrch ==
  /\ pool.pc = "closeErrch"
  /\ pool' = IF Senders(pool) /= {} THEN [pool EXCEPT !.pc = "panic"]
             ELSE [pool EXCEPT !.pc = "recv", !.errClosed = TRUE]
  /\ UNCHANGED <<writerVars, input, encoded>>

\* lines 396 and 360: `return <-errch` takes the error of a worker blocked in
\* `errch <- err` (line 376), which then cancels the context and returns
\* (lines 377-378), or nil from the closed channel; the deferred cancel runs
ReceiveErr ==
  /\ pool.pc = "recv"
  /\ Senders(pool) /= {} \/ pool.errClosed
  /\ \E k \in (IF Senders(pool) /= {} THEN Senders(pool) ELSE {0}) :
       pool' = IF k /= 0
               THEN [pool EXCEPT !.pc = "returned", !.err = pool.workers[k].err,
                                 !.cancelled = TRUE,
                                 !.workers[k].pc = "done", !.wg = @ - 1]
               ELSE [pool EXCEPT !.pc = "returned", !.err = "nil", !.cancelled = TRUE]
  /\ UNCHANGED <<writerVars, input, encoded>>

PoolInit ==
  /\ NoWriter
  /\ input = NoInput
  /\ encoded = NoEnc
  /\ pool \in {Pool(b, np, cf) : b \in Bodies, np \in PoolSizes, cf \in 0..MaxBody}

PoolNext ==
  \/ \E k \in 1..pool.np : Send(k)
  \/ CloseCh
  \/ \E k \in 1..pool.np : SelectReturns(k)
  \/ \E k \in 1..pool.np : Compress(k)
  \/ Wait
  \/ CloseErrch
  \/ ReceiveErr

PoolSpec == PoolInit /\ [][PoolNext]_vars

(***************************************************************************)
(* Properties of the worker pool (PoolSpec).                               *)
(***************************************************************************)
\* C17 as stated: with compressNP > 1 the pool call terminates under every
\* interleaving, also when a worker's codec fails: as long as the call has
\* not returned, some goroutine of it can take a step.
C17_PoolTerminates ==
  pool.pc /= "returned" => ENABLED PoolNext

\* a worker's codec failed
C17_FailedWorker ==
  \E k \in 1..pool.np : pool.workers[k].pc = "senderr"

\* the workers that have not returned
Unreturned(p) == {k \in 1..p.np : p.workers[k].pc /= "done"}

\* C18: with compressNP > 1, when the pool call has returned, with or
\* without error, every worker it started has returned, so no worker reads
\* or writes a body buffer after the return.
C18_WorkersJoined ==
  pool.pc = "returned" =>
    /\ \A k \in 1..pool.np : pool.workers[k].pc = "done"
    /\ pool.wg = 0

\* the call returned from three workers that compressed two buffers or more
C18_Witness ==
  /\ pool.pc = "returned"
  /\ pool.np = 3
  /\ Len(pool.received) >= 2
  /\ \E i \in 1..Len(pool.body) : pool.body[i].comp

\* no codec failure can happen in this call
NoCodecFailure == ~codecFails(PoolEncoder(pool.body0, pool.cfail))

\* the workers that took index i from ch, one for each time it was taken
Takers(i) == {j \in 1..Len(pool.received) : pool.received[j].idx = i}

\* C19: with compressNP > 1 and no codec failure, under every interleaving
\* no index is taken from ch more than once and no two workers hold the
\* same index; a buffer that is not yet compressed is as it was at the call;
\* when the call returns it returns nil, every index was taken exactly once,
\* every non-empty buffer is the compressed form of the original one, every
\* absent or zero-length buffer is untouched, and the body is the one the
\* serial path produces.
C19_DisjointAndSerial ==
  NoCodecFailure =>
    /\ \A i \in 1..Len(pool.body) : Cardinality(Takers(i)) <= 1
    /\ \A k, l \in 1..pool.np :
         (k /= l /\ pool.workers[k].pc = "compress" /\ pool.workers[l].pc = "compress")
           => pool.workers[k].idx /= pool.workers[l].idx
    /\ \A i \in 1..Len(pool.body) :
         \/ pool.body[i] = pool.body0[i]
         \/ /\ compressible(pool.body0[i])
            /\ Takers(i) /= {}
            /\ pool.body[i] = [nil |-> FALSE, comp |-> TRUE,
                               len |-> Int64SizeBytes + CompressedLen(LZ4, pool.body0[i].len)]
    /\ pool.pc = "returned" =>
         /\ pool.err = "nil"
         /\ \A i \in 1..Len(pool.body) :
              /\ Cardinality(Takers(i)) = 1
              /\ compressible(pool.body0[i]) <=> pool.body[i].comp
         /\ pool.body = compressSerial(PoolEncoder(pool.body0, 0), 1).e.body

\* the call returned for a body with an absent, a zero-length and a
\* non-empty buffer, each taken by a different worker
C19_Witness ==
  /\ pool.pc = "returned"
  /\ pool.cfail = 0
  /\ pool.body0 = <<NilBuf, Buf(0), Buf(8)>>
  /\ pool.body[3].comp
  /\ Cardinality({pool.received[j].worker : j \in 1..Len(pool.received)}) = 3

(***************************************************************************)
(* More properties of the record encoder (EncSpec).                        *)
(***************************************************************************)
\* C20 as stated: the depth budget is decremented on entering a Struct,
\* List, Map or FixedSizeList and restored on exit, so that whenever visit
\* returns, on success or on error, the encoder's depth equals its value at
\* entry.  Stated for the returns with nil and with MaxRecursion.
C20_DepthRestored ==
  (encoded.op = "visit" /\ encoded.e.err \in {"nil", "errMaxRecursion"})
    => encoded.e.depth = input.maxDepth

\* visit returned MaxRecursion from below a container
C20_FailedBelowContainer ==
  /\ encoded.op = "visit"
  /\ encoded.e.err = "errMaxRecursion"
  /\ input.maxDepth > 0
  /\ encoded.e.depth < input.maxDepth

\* visit returned nil: the depth is the one at entry
C20_RestoredOnSuccess ==
  (encoded.op = "visit" /\ encoded.e.err = "nil") => encoded.e.depth = input.maxDepth

(***************************************************************************)
(* The stream of one dictionary field over several records: the passes of  *)
(* successive Writes on one payload writer, whose sink keeps every payload *)
(* handed to it.                                                           *)
(***************************************************************************)
MaxPayloads == 2

\* the dictionaries of the next record are collected while the stream is
\* short enough
CollectNext ==
  /\ Len(sink) <= MaxPayloads
  /\ \E pairs \in PassPairs(w.schema) : CollectDictionaries(pairs, 0)

\* Write returned; the payloads stay in the sink
NextRecord ==
  /\ ~hung
  /\ ~pending.active
  /\ last /= NoCall
  /\ last.err = "nil"
  /\ last' = NoCall
  /\ UNCHANGED <<cfg, w, lastWrittenDicts, refs, sink, passArgs, pending, calls, hung,
                 directVars>>

StreamInit ==
  /\ DictInit
  /\ Len(cfg.schema) = 1
  /\ ~passArgs.isFileFormat

StreamNext == CollectNext \/ WriteCollected \/ NextRecord

StreamSpec == StreamInit /\ [][StreamNext]_vars

(***************************************************************************)
(* Properties of the stream (StreamSpec).                                  *)
(***************************************************************************)
RECURSIVE Decoded(_, _, _)
\* the dictionary of id a reader holds after the first n payloads: a
\* non-delta DictionaryBatch replaces it, a delta is appended to it
Decoded(payloads, n, id) ==
  IF n = 0 THEN <<>>
  ELSE LET e == payloads[n]
       IN IF e.msg = "DictionaryBatch" /\ e.id = id /\ e.ok
          THEN IF e.isDelta THEN Decoded(payloads, n - 1, id) \o e.vals
               ELSE e.vals
          ELSE Decoded(payloads, n - 1, id)

\* C21 as stated: in the stream format, after every successful pass of a
\* Write, for every dictionary id of the record, the dictionary a reader
\* reconstructs from the DictionaryBatch payloads emitted so far equals the
\* record's dictionary by value (within the tolerance of the writer's own
\* comparison, NaNs equal), for either setting of emitDictDeltas.
C21_ReaderAgrees ==
  [][(PassReturned /\ last'.err = "nil" /\ ~passArgs.isFileFormat) =>
       \A i \in 1..Len(pending.pairs) :
         SameByValue(Decoded(sink', Len(sink'), pending.pairs[i].id),
                     pending.pairs[i].dict.vals)]_vars

\* the same with deltas disabled
C21_ReaderAgreesWithoutDeltas ==
  [][(PassReturned /\ last'.err = "nil" /\ ~passArgs.isFileFormat
        /\ ~passArgs.emitDictDeltas) =>
       \A i \in 1..Len(pending.pairs) :
         SameByValue(Decoded(sink', Len(sink'), pending.pairs[i].id),
                     pending.pairs[i].dict.vals)]_vars

\* the same with the reader's dictionary identical to the record's
C21_ReaderAgreesExactly ==
  [][(PassReturned /\ last'.err = "nil" /\ ~passArgs.isFileFormat
        /\ ~passArgs.emitDictDeltas) =>
       \A i \in 1..Len(pending.pairs) :
         Decoded(sink', Len(sink'), pending.pairs[i].id) = pending.pairs[i].dict.vals]_vars

====
